---- MODULE Spec2Model ----
(***************************************************************************)
(* A model of src/walk.rs: create_file_tree / walk_dir.                    *)
(*                                                                         *)
(* A path is a sequence of components, a component a sequence of bytes.    *)
(* fs is the set of paths the external walker yields for the requested     *)
(* path: the objects of a directory tree, less those a broken collector    *)
(* skips.  The walker yields them in any order and may fail at any point;  *)
(* io_error records that it did.  The tree is the arena of id_tree: a      *)
(* sequence of nodes addressed by their index, 0 standing for None.        *)
(* result is "None" until the call ends, then "Ok", "Err" or "Panic".      *)
(* Every per-invocation variable is a function of the invocation (Runs),   *)
(* so that two invocations over the same disk can be compared.             *)
(***************************************************************************)
EXTENDS Naturals, Sequences, FiniteSets, TLC

\* Bounds of the model.
MaxEntries == 3
MaxDepth == 2
MaxSkipped == 1

\* The separator of join("/").
SLASH == 47

\* Component names: "a", "f", the single byte 0xFF (not valid UTF-8), "r".
\* The requested path is "r" or "\xFF/a".
NameA == <<97>>
NameF == <<102>>
NameX == <<255>>
NameR == <<114>>
DirNames == {NameA, NameX}
FileNames == {NameF}
Names == DirNames \cup FileNames
Roots == {<<NameR>>, <<NameX, NameA>>}
Runs == {1, 2}

VARIABLES path, root_is_file, fs, use_git_ignore, pc, walker, items,
          node_id_map, tree, result, io_error

vars == <<path, root_is_file, fs, use_git_ignore, pc, walker, items,
          node_id_map, tree, result, io_error>>

----------------------------------------------------------------------------
\* Paths and the disk.

Last(s) == s[Len(s)]
Front(s) == SubSeq(s, 1, Len(s) - 1)

\* The directories d levels below root.
RECURSIVE DirsBelow(_, _)
DirsBelow(root, d) ==
    IF d = 0 THEN {root}
    ELSE {Append(p, n) : p \in DirsBelow(root, d - 1), n \in DirNames}

\* Every object the disk may hold below root: files have no descendants.
PathsBelow(root) ==
    UNION {{Append(p, n) : p \in DirsBelow(root, d - 1), n \in Names} : d \in 1..MaxDepth}

RECURSIVE SubsetsUpTo(_, _)
SubsetsUpTo(S, k) ==
    IF k = 0 THEN {{}}
    ELSE LET T == SubsetsUpTo(S, k - 1) IN T \cup {t \cup {x} : t \in T, x \in S}

\* entry.metadata().is_file()
is_file(p) == Last(p) \in FileNames

\* Item { path: entry.path(), is_file }
Item(p) == [path |-> p, is_file |-> is_file(p)]

\* A sort key that ignores the depth (the sort leaves any order).
no_depth_key(item) == 0

\* item.path.iter().count(), the key of sort_unstable_by_key
depth_key(item) == Len(item.path)

\* Path::parent: None (<<>> here stands for it only when the path is empty)
parent(p) == Front(p)

\* OsStr::to_str: Some for valid UTF-8.  Over the bytes used here (ASCII and
\* 0xFF) a component is valid exactly when every byte is below 128.
to_str_ok(c) == \A k \in 1..Len(c) : c[k] < 128

RECURSIVE join(_)
join(cs) ==
    IF cs = <<>> THEN <<>>
    ELSE IF Len(cs) = 1 THEN cs[1]
    ELSE cs[1] \o <<SLASH>> \o join(Tail(cs))

\* The closure path_key: the components that are valid UTF-8, joined by "/".
path_key(p) == join(SelectSeq(p, to_str_ok))

\* String's Ord: bytewise lexicographic, a proper prefix is smaller.
RECURSIVE StrLeq(_, _)
StrLeq(s, t) ==
    IF s = <<>> THEN TRUE
    ELSE IF t = <<>> THEN FALSE
    ELSE IF s[1] < t[1] THEN TRUE
    ELSE IF s[1] > t[1] THEN FALSE
    ELSE StrLeq(Tail(s), Tail(t))

----------------------------------------------------------------------------
\* id_tree::Tree as used by walk_dir.

EmptyTree == [nodes |-> <<>>, root |-> 0]
EmptyMap == [k \in {} |-> 0]

NewNode(item, parent_id) == [data |-> item, parent |-> parent_id, children |-> <<>>]

\* tree.insert(node, AsRoot)
InsertAsRoot(t, item) ==
    LET id == Len(t.nodes) + 1 IN
    IF t.root = 0
    THEN [nodes |-> Append(t.nodes, NewNode(item, 0)), root |-> id]
    ELSE [nodes |-> Append([t.nodes EXCEPT ![t.root].parent = id],
                           [NewNode(item, 0) EXCEPT !.children = <<t.root>>]),
          root |-> id]

\* tree.insert(node, UnderNode(parent_id)): the new node is the last child.
InsertUnderNode(t, item, parent_id) ==
    [t EXCEPT !.nodes = Append([@ EXCEPT ![parent_id].children = Append(@, Len(t.nodes) + 1)],
                               NewNode(item, parent_id))]

\* The sort key of a child: path_key(&node.data().path)
child_key(t, id) == path_key(t.nodes[id].data.path)

RECURSIVE StableInsert(_, _, _)
StableInsert(t, s, x) ==
    IF s = <<>> THEN <<x>>
    ELSE IF StrLeq(child_key(t, s[1]), child_key(t, x))
         THEN <<s[1]>> \o StableInsert(t, Tail(s), x)
         ELSE <<x>> \o s

RECURSIVE StableSort(_, _)
StableSort(t, s) ==
    IF s = <<>> THEN <<>>
    ELSE StableInsert(t, StableSort(t, Front(s)), Last(s))

\* tree.sort_children_by_key(parent_id, ...): a stable sort of the children.
sort_children_by_key(t, parent_id) ==
    [t EXCEPT !.nodes[parent_id].children = StableSort(t, @)]

\* node_id_map.insert
MapInsert(m, k, v) == [x \in (DOMAIN m) \cup {k} |-> IF x = k THEN v ELSE m[x]]

\* tree.traverse_pre_order(root_id)
RECURSIVE PreOrder(_, _), PreOrderAll(_, _)
PreOrder(t, id) == <<id>> \o PreOrderAll(t, t.nodes[id].children)
PreOrderAll(t, ids) ==
    IF ids = <<>> THEN <<>>
    ELSE PreOrder(t, Head(ids)) \o PreOrderAll(t, Tail(ids))

PreOrderPaths(t) ==
    IF t.root = 0 THEN <<>>
    ELSE LET po == PreOrder(t, t.root) IN [k \in 1..Len(po) |-> t.nodes[po[k]].data.path]

----------------------------------------------------------------------------
\* One invocation's state, and what each step of the code makes of it.

RunState(i) ==
    [use_git_ignore |-> use_git_ignore[i], pc |-> pc[i], walker |-> walker[i],
     items |-> items[i], node_id_map |-> node_id_map[i], tree |-> tree[i],
     result |-> result[i]]

\* The locals of walk_dir are dropped when it returns or unwinds.
Finish(s, res, t) ==
    [s EXCEPT !.pc = "done", !.result = res, !.tree = t, !.walker = {},
              !.items = <<>>, !.node_id_map = EmptyMap]

\* The file root built as the root of a walk is: is_file false.
FileRootAsDir(p) == [path |-> p, is_file |-> FALSE]

\* create_file_tree, path.is_file(): the one-node tree of TreeBuilder.
FileRootItem(p) == [path |-> p, is_file |-> TRUE]
BuildFileTree(s) == Finish(s, "Ok", InsertAsRoot(EmptyTree, FileRootItem(path)))

\* create_file_tree, otherwise: walk_dir starts its walker.
StartWalk(s) == [s EXCEPT !.pc = "walk", !.walker = fs]

\* The TODO carried out: with use_git_ignore, files are left out.
PushItemUnlessIgnored(s, p) ==
    IF s.use_git_ignore /\ is_file(p)
    THEN [s EXCEPT !.walker = @ \ {p}]
    ELSE [s EXCEPT !.walker = @ \ {p}, !.items = Append(@, Item(p))]

\* The loop body on Some(Ok(entry)) with metadata: items.push.
PushItem(s, p) ==
    [s EXCEPT !.walker = @ \ {p}, !.items = Append(@, Item(p))]

\* The error swallowed: the loop ends and the tree is built of what was read.
WalkFailureSwallowed(s) == [s EXCEPT !.walker = {}]

\* entry? and entry.metadata().await?: the error is returned at once.
WalkFailed(s) == Finish(s, "Err", EmptyTree)

\* The orders sort_unstable_by_key(|item| item.path.iter().count()) may leave.
IndexOrders(n) == {p \in [1..n -> 1..n] : \A j, k \in 1..n : p[j] = p[k] => j = k}
SortedOrders(its) ==
    {p \in IndexOrders(Len(its)) :
        \A j, k \in 1..Len(its) : j < k => depth_key(its[p[j]]) <= depth_key(its[p[k]])}

\* The walker is exhausted; the items are sorted into the order p.
SortItems(s, p) ==
    [s EXCEPT !.pc = "root", !.walker = {}, !.items = [k \in 1..Len(@) |-> @[p[k]]]]

\* The root node built with is_file true.
RootItemAsFile(p) == [path |-> p, is_file |-> TRUE]

\* Tree::new(), the root node and its registration.
RootItem(p) == [path |-> p, is_file |-> FALSE]
NewTree(s) ==
    LET t == InsertAsRoot(EmptyTree, RootItem(path)) IN
    [s EXCEPT !.pc = "insert", !.tree = t,
              !.node_id_map = MapInsert(EmptyMap, path_key(path), t.root)]

\* A lookup that falls back to the root (node 1) instead of failing.
ParentIdOrRoot(m, item) ==
    IF path_key(parent(item.path)) \in DOMAIN m THEN m[path_key(parent(item.path))] ELSE 1

\* node_id_map.get(&path_key(parent)): 0 stands for None.
ParentId(m, item) ==
    IF path_key(parent(item.path)) \in DOMAIN m THEN m[path_key(parent(item.path))] ELSE 0

\* The new node registered under its parent's key.
parent_key_as_node_id_key(item) == path_key(parent(item.path))

\* The key the new node is registered under.
node_id_key(item) == path_key(item.path)

\* One iteration of `for item in items`.
InsertItem(s) ==
    LET item == Head(s.items)
        parent_id == ParentId(s.node_id_map, item)
    IN  IF item.path = <<>> \/ parent_id = 0
        THEN Finish(s, "Panic", EmptyTree)
        ELSE LET t1 == InsertUnderNode(s.tree, item, parent_id)
                 node_id == Len(t1.nodes)
             IN  [s EXCEPT !.items = Tail(@),
                           !.tree = sort_children_by_key(t1, parent_id),
                           !.node_id_map = MapInsert(@, node_id_key(item), node_id)]

\* return Ok(tree)
ReturnTree(s) == Finish(s, "Ok", s.tree)

----------------------------------------------------------------------------
\* The actions: the runs of R take the step together, after[i] being the
\* state it leaves run i in; the others wait.

Apply(R, after) ==
    /\ pc' = [i \in Runs |-> IF i \in R THEN after[i].pc ELSE pc[i]]
    /\ walker' = [i \in Runs |-> IF i \in R THEN after[i].walker ELSE walker[i]]
    /\ items' = [i \in Runs |-> IF i \in R THEN after[i].items ELSE items[i]]
    /\ node_id_map' = [i \in Runs |-> IF i \in R THEN after[i].node_id_map ELSE node_id_map[i]]
    /\ tree' = [i \in Runs |-> IF i \in R THEN after[i].tree ELSE tree[i]]
    /\ result' = [i \in Runs |-> IF i \in R THEN after[i].result ELSE result[i]]
    /\ UNCHANGED <<path, root_is_file, fs, use_git_ignore>>

CallOnFile(R) ==
    /\ \A i \in R : pc[i] = "call"
    /\ root_is_file
    /\ Apply(R, [i \in R |-> BuildFileTree(RunState(i))])
    /\ UNCHANGED io_error

CallOnDir(R) ==
    /\ \A i \in R : pc[i] = "call"
    /\ ~root_is_file
    /\ Apply(R, [i \in R |-> StartWalk(RunState(i))])
    /\ UNCHANGED io_error

\* walker.next() yields the entry p and its metadata is read.
WalkNext(R) ==
    /\ \A i \in R : pc[i] = "walk"
    /\ \E p \in fs :
        /\ \A i \in R : p \in walker[i]
        /\ Apply(R, [i \in R |-> PushItem(RunState(i), p)])
    /\ UNCHANGED io_error

\* walker.next() yields an error (a directory cannot be read).
WalkEntryError(R) ==
    /\ \A i \in R : pc[i] = "walk"
    /\ Apply(R, [i \in R |-> WalkFailed(RunState(i))])
    /\ io_error' = [i \in Runs |-> IF i \in R THEN TRUE ELSE io_error[i]]

\* walker.next() yields an entry whose metadata cannot be read.
WalkMetadataError(R) ==
    /\ \A i \in R : pc[i] = "walk" /\ walker[i] # {}
    /\ Apply(R, [i \in R |-> WalkFailed(RunState(i))])
    /\ io_error' = [i \in Runs |-> IF i \in R THEN TRUE ELSE io_error[i]]

\* walker.next() yields None; the items are sorted by depth.
WalkEnd(R) ==
    /\ \A i \in R : pc[i] = "walk" /\ walker[i] = {}
    /\ \E p \in IndexOrders(Cardinality(fs)) :
        /\ \A i \in R : p \in SortedOrders(items[i])
        /\ Apply(R, [i \in R |-> SortItems(RunState(i), p)])
    /\ UNCHANGED io_error

CreateRoot(R) ==
    /\ \A i \in R : pc[i] = "root"
    /\ Apply(R, [i \in R |-> NewTree(RunState(i))])
    /\ UNCHANGED io_error

Insert(R) ==
    /\ \A i \in R : pc[i] = "insert" /\ items[i] # <<>>
    /\ Apply(R, [i \in R |-> InsertItem(RunState(i))])
    /\ UNCHANGED io_error

Return(R) ==
    /\ \A i \in R : pc[i] = "insert" /\ items[i] = <<>>
    /\ Apply(R, [i \in R |-> ReturnTree(RunState(i))])
    /\ UNCHANGED io_error

Step(R) ==
    \/ CallOnFile(R)
    \/ CallOnDir(R)
    \/ WalkNext(R)
    \/ WalkEntryError(R)
    \/ WalkMetadataError(R)
    \/ WalkEnd(R)
    \/ CreateRoot(R)
    \/ Insert(R)
    \/ Return(R)

\* The directory trees the disk may hold below root.
DiskTrees(root) ==
    {d \in SubsetsUpTo(PathsBelow(root), MaxEntries) :
        \A p \in d : parent(p) = root \/ parent(p) \in d}

\* What the walker yields of a disk: all of it, or, for a broken collector,
\* all but up to MaxSkipped of its objects.
WalkerOutputs(root) ==
    {d \ skipped : d \in DiskTrees(root), skipped \in SubsetsUpTo(PathsBelow(root), MaxSkipped)}

InitDisk ==
    /\ path \in Roots
    /\ root_is_file \in BOOLEAN
    /\ fs \in WalkerOutputs(path)
    /\ root_is_file => fs = {}

InitRuns ==
    /\ pc = [i \in Runs |-> "call"]
    /\ walker = [i \in Runs |-> {}]
    /\ items = [i \in Runs |-> <<>>]
    /\ node_id_map = [i \in Runs |-> EmptyMap]
    /\ tree = [i \in Runs |-> EmptyTree]
    /\ result = [i \in Runs |-> "None"]
    /\ io_error = [i \in Runs |-> FALSE]

\* The call made with use_git_ignore = true (run 1) and with false (run 2),
\* both fed the same walker output and the same order of the depth sort.
Init ==
    /\ InitDisk
    /\ use_git_ignore = [i \in Runs |-> i = 1]
    /\ InitRuns

Next == Step(Runs)

Spec == Init /\ [][Next]_vars

\* Two invocations over the same unchanged disk, one after the other; each
\* walks and sorts in an order of its own.
InitTwo ==
    /\ InitDisk
    /\ use_git_ignore \in [Runs -> BOOLEAN]
    /\ InitRuns

NextTwo ==
    \/ Step({1})
    \/ pc[1] = "done" /\ Step({2})

SpecTwo == InitTwo /\ [][NextTwo]_vars

----------------------------------------------------------------------------
\* What the claims speak of.

Returned(i) == pc[i] = "done" /\ result[i] = "Ok"
Building(i) == pc[i] = "insert"
NodeIds(t) == 1..Len(t.nodes)
NodePath(t, n) == t.nodes[n].data.path
IsStrictPrefix(p, q) == Len(p) < Len(q) /\ SubSeq(q, 1, Len(p)) = p

\* The full path, every component kept, joined by "/".
full_path(p) == join(p)

\* Every entry's filesystem-parent is the root or another entry.
ParentClosed == \A p \in fs : parent(p) = path \/ parent(p) \in fs

\* Some entry's parent key is the key of neither the root nor any entry.
KeyOrphan ==
    \E p \in fs : path_key(parent(p)) \notin {path_key(q) : q \in fs \cup {path}}

KeysDistinct ==
    \A p \in fs : path_key(p) # path_key(path)
                  /\ \A q \in fs : p # q => path_key(p) # path_key(q)

\* Every name below the requested path is valid UTF-8.
AllUtf8 == \A p \in fs : \A k \in (Len(path) + 1)..Len(p) : to_str_ok(p[k])

\* Pre-order visits every node, a directory before the nodes below it on disk.
ParentsFirst(t) ==
    LET po == PreOrder(t, t.root) IN
    /\ Len(po) = Len(t.nodes)
    /\ \A j, k \in 1..Len(po) :
         IsStrictPrefix(NodePath(t, po[j]), NodePath(t, po[k])) => j < k

SiblingsAscendBy(t, K(_)) ==
    \A n \in NodeIds(t) :
        LET c == t.nodes[n].children IN
        \A j, k \in 1..Len(c) : j < k => StrLeq(K(NodePath(t, c[j])), K(NodePath(t, c[k])))

OneRoot(t) ==
    /\ t.root \in NodeIds(t)
    /\ NodePath(t, t.root) = path
    /\ \A n \in NodeIds(t) : t.nodes[n].parent = 0 <=> n = t.root

ParentsMatch(t) ==
    \A n \in NodeIds(t) : n # t.root =>
        /\ t.nodes[n].parent \in NodeIds(t)
        /\ NodePath(t, t.nodes[n].parent) = parent(NodePath(t, n))
        /\ \E k \in 1..Len(t.nodes[t.nodes[n].parent].children) :
             t.nodes[t.nodes[n].parent].children[k] = n

----------------------------------------------------------------------------
\* C1: for a directory root, pre-order traversal of the returned tree visits
\* every directory before the nodes below it, and the children of every node
\* in ascending order of their full slash-joined path.  (Stated of the entry
\* sets a walk of a real directory tree collects.)
C1_PreOrderSorted ==
    \A i \in Runs :
        (~root_is_file /\ ParentClosed /\ Returned(i)) =>
            /\ ParentsFirst(tree[i])
            /\ SiblingsAscendBy(tree[i], full_path)

\* C2: two builds over the same entry set, whatever the discovery order and
\* the order left among entries of equal depth, end alike and give the same
\* pre-order path sequence.  (Stated of the entry sets a walk of a real
\* directory tree collects.)
C2_OrderIndependent ==
    (ParentClosed /\ pc[1] = "done" /\ pc[2] = "done" /\ ~io_error[1] /\ ~io_error[2]) =>
        /\ result[1] = result[2]
        /\ PreOrderPaths(tree[1]) = PreOrderPaths(tree[2])

C4_FileRoot ==
    \A i \in Runs :
        root_is_file =>
            /\ pc[i] \in {"call", "done"}
            /\ walker[i] = {} /\ items[i] = <<>> /\ node_id_map[i] = EmptyMap
            /\ pc[i] = "done" =>
                 /\ result[i] = "Ok"
                 /\ tree[i].root = 1
                 /\ tree[i].nodes = <<[data |-> [path |-> path, is_file |-> TRUE],
                                       parent |-> 0, children |-> <<>>]>>

C4_Witness ==
    /\ root_is_file
    /\ \E i, j \in Runs : use_git_ignore[i] /\ ~use_git_ignore[j] /\ Returned(i) /\ Returned(j)

\* C5: once the walker reports an error the call has returned that error and
\* no tree; what was collected is dropped and no tree is ever built.
C5_WalkErrorAborts ==
    \A i \in Runs :
        io_error[i] =>
            /\ pc[i] = "done" /\ result[i] = "Err"
            /\ tree[i] = EmptyTree /\ items[i] = <<>>

C5_Witness == io_error[1] /\ result[1] = "Err" /\ Cardinality(fs) > 1

\* C6: the call with use_git_ignore = true and the call with false, fed the
\* same walker output, are in the same state throughout and end with the
\* same outcome; every entry yielded is kept.
C6_FlagNoEffect ==
    /\ pc[1] = pc[2] /\ walker[1] = walker[2] /\ items[1] = items[2]
    /\ node_id_map[1] = node_id_map[2] /\ tree[1] = tree[2] /\ result[1] = result[2]
    /\ \A i \in Runs : pc[i] = "root" => {items[i][k].path : k \in 1..Len(items[i])} = fs

C6_Witness ==
    /\ use_git_ignore[1] /\ ~use_git_ignore[2]
    /\ Returned(1) /\ Returned(2) /\ Len(tree[1].nodes) = MaxEntries + 1
    /\ \E p \in fs : is_file(p)

\* C7: a directory in which the walker finds nothing gives the tree of the
\* root alone: the requested path, is_file false, no children.
C7_EmptyDir ==
    \A i \in Runs :
        (~root_is_file /\ fs = {} /\ pc[i] = "done" /\ ~io_error[i]) =>
            /\ result[i] = "Ok"
            /\ tree[i].root = 1
            /\ tree[i].nodes = <<[data |-> [path |-> path, is_file |-> FALSE],
                                  parent |-> 0, children |-> <<>>]>>

C7_Witness == ~root_is_file /\ fs = {} /\ Returned(1)

\* C8: when every entry's parent is the root or another entry, the parent's
\* key is in the index whenever an entry is about to be handled, so the
\* lookup never fails, whatever the discovery order and the sorted order.
C8_ParentRegistered ==
    \A i \in Runs :
        ParentClosed =>
            /\ result[i] # "Panic"
            /\ (Building(i) /\ items[i] # <<>>) =>
                 path_key(parent(Head(items[i]).path)) \in DOMAIN node_id_map[i]

C8_Witness ==
    /\ ParentClosed /\ Building(1) /\ Len(items[1]) = 1
    /\ Len(Head(items[1]).path) = Len(path) + MaxDepth

\* C9: after every insertion and in the returned tree there is one root, it
\* holds the requested path, and every other node's parent is the node of
\* its filesystem-parent.  (Stated of the entry sets a walk of a real
\* directory tree collects.)
C9_ParentIsFsParent ==
    \A i \in Runs :
        (~root_is_file /\ ParentClosed /\ (Building(i) \/ Returned(i))) =>
            (OneRoot(tree[i]) /\ ParentsMatch(tree[i]))

\* C10: given entries of pairwise distinct keys, none the root's, the index
\* holds after every iteration exactly the keys of the nodes in the tree,
\* each mapped to the node of that path; no two nodes share a path and the
\* finished tree has one node per entry plus the root.
C10_IndexMatchesTree ==
    \A i \in Runs :
        (~root_is_file /\ KeysDistinct) =>
            /\ Building(i) =>
                 /\ DOMAIN node_id_map[i] = {child_key(tree[i], n) : n \in NodeIds(tree[i])}
                 /\ \A k \in DOMAIN node_id_map[i] :
                      /\ node_id_map[i][k] \in NodeIds(tree[i])
                      /\ child_key(tree[i], node_id_map[i][k]) = k
            /\ (Building(i) \/ Returned(i)) =>
                 \A m, n \in NodeIds(tree[i]) :
                     NodePath(tree[i], m) = NodePath(tree[i], n) => m = n
            /\ Returned(i) => Len(tree[i].nodes) = Cardinality(fs) + 1

C10_Witness ==
    /\ KeysDistinct /\ Returned(1) /\ Len(tree[1].nodes) = MaxEntries + 1

\* Supporting checks.  With every component of every entry valid UTF-8 the
\* orders and the parents are as C1, C2 and C9 say.
Utf8_PreOrderSorted == AllUtf8 => C1_PreOrderSorted
Utf8_OrderIndependent == AllUtf8 => C2_OrderIndependent
Utf8_ParentIsFsParent == AllUtf8 => C9_ParentIsFsParent
\* Whatever the names, pre-order visits a directory before what lies below it
\* and siblings in ascending order of the key the code sorts by.
Key_PreOrderSorted ==
    \A i \in Runs :
        (~root_is_file /\ Returned(i)) =>
            (ParentsFirst(tree[i]) /\ SiblingsAscendBy(tree[i], path_key))

====
